---- MODULE Spec2Model ----
(***************************************************************************)
(* State-machine model of contracts/Multisig_Policy_Fhe.sol                *)
(* (contract MultisigPolicyFhe): roles, pause switch, cooldown, batches of *)
(* encrypted totals, the two-tier approval predicate and the decryption    *)
(* request / callback protocol.                                            *)
(*                                                                         *)
(* Every external function f is one action f(...).  A transaction is       *)
(* atomic: a call that reverts leaves every variable unchanged, and the    *)
(* error it reverts with is the value of fError(...) in the state it is    *)
(* called in ("ok" when the call goes through).                            *)
(***************************************************************************)
EXTENDS Integers, Sequences, FiniteSets, TLC

\* ------------------------------------------------------------------ bounds
MaxBatchId == 2         \* closeBatch is not taken once currentBatchId = MaxBatchId
MaxSubmits == 1         \* homomorphic additions accumulated into one batch
MaxRequestId == 0       \* request ids a callback may name: 0..MaxRequestId
StartTime == 100        \* block.timestamp of the deployment
TimeStep == 30          \* block.timestamp advances in steps of TimeStep
MaxTicks == 1           \* number of advances of block.timestamp
MaxWideSubmits == 3     \* submissions accumulated under SpecAccumulate
MaxWideTicks == 3       \* advances of block.timestamp under SpecAccumulate

\* two externally owned accounts call the contract; the first deploys it
Deployer == 1
Addr == {Deployer, Deployer + 1}
ContractAddress == Deployer + 2     \* address(this), no caller has it
BatchIds == 0..MaxBatchId
RequestIds == 0..MaxRequestId
MaxTime == StartTime + MaxTicks * TimeStep

\* ------------------------------------------------- 32-bit unsigned integers
\* A euint32 cleartext is a pair <<high, low>> of 16-bit limbs, so that the
\* whole range 0 .. 2^32 - 1 and its wraparound are represented.
Limb == 65536
U32(n) == <<n \div Limb, n % Limb>>
U32Max == <<Limb - 1, Limb - 1>>
U32Add(a, b) ==
    LET lo == a[2] + b[2]
        hi == a[1] + b[1] + (lo \div Limb)
    IN  <<hi % Limb, lo % Limb>>
U32Le(a, b) == a[1] < b[1] \/ (a[1] = b[1] /\ a[2] <= b[2])
U32Gt(a, b) == a[1] > b[1] \/ (a[1] = b[1] /\ a[2] > b[2])
U32Ge(a, b) == a[1] > b[1] \/ (a[1] = b[1] /\ a[2] >= b[2])

\* --------------------------------------------------- encrypted values (FHE)
\* A ciphertext handle is [val, id]: val is the cleartext it decrypts to and
\* id the handle bytes, a sequence of integers that determines the handle.
\* The handle of a result is derived from the operator and the operand
\* handles; bytes32(0), the empty sequence, is the uninitialized handle.
NoHandle == [val |-> U32(0), id |-> <<>>]
isInitialized(h) == h.id # <<>>
asEuint32(v) == [val |-> v, id |-> <<0, v[1], v[2]>>]
\* a ciphertext supplied by a caller for the cleartext v
InputEuint32(v) == [val |-> v, id |-> <<1, v[1], v[2]>>]
\* operators of the library replace an uninitialized operand by asEuint32(0)
Operand(h) == IF isInitialized(h) THEN h ELSE asEuint32(U32(0))
\* an addition that stops at 2^32 - 1 instead of wrapping around
FHE_add_saturating(a, b) ==
    LET x == Operand(a).val
        y == Operand(b).val
        lo == x[2] + y[2]
        hi == x[1] + y[1] + (lo \div Limb)
    IN  [val |-> IF hi >= Limb THEN U32Max ELSE <<hi, lo % Limb>>,
         id |-> <<2>> \o Operand(a).id \o Operand(b).id]

FHE_add(a, b) ==
    [val |-> U32Add(Operand(a).val, Operand(b).val),
     id |-> <<2>> \o Operand(a).id \o Operand(b).id]
FHE_le(a, b) ==
    [val |-> U32Le(Operand(a).val, Operand(b).val),
     id |-> <<3>> \o Operand(a).id \o Operand(b).id]
FHE_gt(a, b) ==
    [val |-> U32Gt(Operand(a).val, Operand(b).val),
     id |-> <<4>> \o Operand(a).id \o Operand(b).id]
FHE_ge(a, b) ==
    [val |-> U32Ge(Operand(a).val, Operand(b).val),
     id |-> <<5>> \o Operand(a).id \o Operand(b).id]
FHE_and(p, q) == [val |-> p.val /\ q.val, id |-> <<6>> \o p.id \o q.id]
FHE_or(p, q) == [val |-> p.val \/ q.val, id |-> <<7>> \o p.id \o q.id]
toBytes32(h) == h.id
\* what the oracle's key holders decrypt a handle to
Decrypt(h) == h.val

\* keccak256(abi.encode(cts, address(this))): injective in both arguments and
\* never bytes32(0), the stateHash of a context that was never written
ZeroHash == [cts |-> <<>>, self |-> 0]
hashCiphertexts(cts) == [cts |-> cts, self |-> ContractAddress]

\* ------------------------------------------------------------------ inputs
\* (amount, numApprovals) pairs a provider submits, as plain numbers
SubmitInputs == << <<5000, 2>>, <<10000, 1>> >>
\* (threshold2, threshold4, limit) triples a provider sets
PolicyInputs == << <<3, 1, 0>> >>
CooldownInputs == {0, TimeStep}
\* a proof is either the key holders' signature over (requestId, cleartexts)
\* or anything else
Proofs == {"kms", "forged"}

\* ------------------------------------------------------------------- state
VARIABLES
    owner,                      \* address
    isProvider,                 \* mapping(address => bool)
    lastSubmissionTime,         \* mapping(address => uint256)
    lastDecryptionRequestTime,  \* mapping(address => uint256)
    cooldownSeconds,            \* uint256
    paused,                     \* bool
    decryptionContexts,         \* mapping(uint256 => DecryptionContext)
    batches,                    \* mapping(uint256 => Batch)
    currentBatchId,             \* uint256
    oracleRequests,             \* the oracle: ciphertexts of request id i at i + 1
    now,                        \* block.timestamp
    lastEvent,                  \* the last DecryptionRequested / DecryptionCompleted
    evaluated                   \* the encrypted booleans a predicate evaluation built

storage == <<owner, isProvider, lastSubmissionTime, lastDecryptionRequestTime,
             cooldownSeconds, paused, decryptionContexts, batches,
             currentBatchId, oracleRequests>>
vars == <<owner, isProvider, lastSubmissionTime, lastDecryptionRequestTime,
          cooldownSeconds, paused, decryptionContexts, batches,
          currentBatchId, oracleRequests, now, lastEvent, evaluated>>

DefaultCooldown == 60
FirstBatchId == 1
DefaultThreshold2 == 2
DefaultThreshold4 == 4
DefaultLimit == 10000

\* the zero value of struct Batch and of struct DecryptionContext
EmptyBatch ==
    [id |-> 0, isOpen |-> FALSE,
     totalAmountEncrypted |-> NoHandle, numApprovalsEncrypted |-> NoHandle,
     threshold2Encrypted |-> NoHandle, threshold4Encrypted |-> NoHandle,
     limitEncrypted |-> NoHandle]
EmptyContext == [batchId |-> 0, stateHash |-> ZeroHash, processed |-> FALSE]

NoStatus == [val |-> FALSE, id |-> <<>>]
NotEvaluated == [done |-> FALSE, request |-> NoStatus, callback |-> NoStatus]
NoEvent == [name |-> "none", requestId |-> 0, batchId |-> 0, approved |-> FALSE]
Event(name, requestId, batchId, approved) ==
    [name |-> name, requestId |-> requestId, batchId |-> batchId,
     approved |-> approved]
\* A call that reverts changes nothing: the error it reverts with is the value
\* of the function's ...Error operator in the state it is called in.
Reverted == UNCHANGED vars

constructor ==
    /\ owner = Deployer
    /\ isProvider = [a \in Addr |-> a = Deployer]
    /\ lastSubmissionTime = [a \in Addr |-> 0]
    /\ lastDecryptionRequestTime = [a \in Addr |-> 0]
    /\ cooldownSeconds = DefaultCooldown
    /\ paused = FALSE
    /\ decryptionContexts = [r \in RequestIds |-> EmptyContext]
    /\ batches = [b \in BatchIds |-> EmptyBatch]
    /\ currentBatchId = FirstBatchId
    /\ oracleRequests = <<>>
    /\ now = StartTime
    /\ lastEvent = NoEvent
    /\ evaluated = NotEvaluated

Init == constructor

\* ------------------------------------------------------------- modifiers
\* onlyOwner that also lets a registered provider through
onlyOwner_orProvider(sender) == sender = owner \/ isProvider[sender]
onlyOwner(sender) == sender = owner
\* onlyProvider that also lets the owner through
onlyProvider_orOwner(sender) == isProvider[sender] \/ sender = owner
onlyProvider(sender) == isProvider[sender]
whenNotPaused_ungated == TRUE
whenNotPaused == ~paused
respectCooldown(sender) ==
    /\ ~(now < lastSubmissionTime[sender] + cooldownSeconds)
    /\ ~(now < lastDecryptionRequestTime[sender] + cooldownSeconds)

\* ------------------------------------------------------ role administration
transferOwnershipError(sender, newOwner) ==
    IF ~onlyOwner(sender) THEN "NotOwner" ELSE "ok"

\* transferOwnership that hands the provider membership over as well
transferOwnership_movesProvider(sender, newOwner) ==
    IF transferOwnershipError(sender, newOwner) # "ok" THEN Reverted
    ELSE /\ owner' = newOwner
         /\ isProvider' = [isProvider EXCEPT ![sender] = FALSE,
                                             ![newOwner] = TRUE]
         /\ UNCHANGED <<lastSubmissionTime, lastDecryptionRequestTime,
                        cooldownSeconds, paused, decryptionContexts, batches,
                        currentBatchId, oracleRequests, now, lastEvent, evaluated>>

transferOwnership(sender, newOwner) ==
    IF transferOwnershipError(sender, newOwner) # "ok" THEN Reverted
    ELSE /\ owner' = newOwner
         /\ UNCHANGED <<isProvider, lastSubmissionTime, lastDecryptionRequestTime,
                        cooldownSeconds, paused, decryptionContexts, batches,
                        currentBatchId, oracleRequests, now, lastEvent, evaluated>>

addProviderError(sender, provider) ==
    IF ~onlyOwner(sender) THEN "NotOwner" ELSE "ok"

addProvider(sender, provider) ==
    IF addProviderError(sender, provider) # "ok" THEN Reverted
    ELSE /\ isProvider' = [isProvider EXCEPT ![provider] = TRUE]
         /\ UNCHANGED <<owner, lastSubmissionTime, lastDecryptionRequestTime,
                        cooldownSeconds, paused, decryptionContexts, batches,
                        currentBatchId, oracleRequests, now, lastEvent, evaluated>>

removeProviderError(sender, provider) ==
    IF ~onlyOwner(sender) THEN "NotOwner" ELSE "ok"

removeProvider(sender, provider) ==
    IF removeProviderError(sender, provider) # "ok" THEN Reverted
    ELSE /\ isProvider' = [isProvider EXCEPT ![provider] = FALSE]
         /\ UNCHANGED <<owner, lastSubmissionTime, lastDecryptionRequestTime,
                        cooldownSeconds, paused, decryptionContexts, batches,
                        currentBatchId, oracleRequests, now, lastEvent, evaluated>>

\* the checks of pause without the check of the switch
pauseError_idempotent(sender) ==
    IF ~onlyOwner(sender) THEN "NotOwner" ELSE "ok"

pauseError(sender) ==
    IF ~onlyOwner(sender) THEN "NotOwner"
    ELSE IF ~whenNotPaused THEN "Paused"
    ELSE "ok"

pause(sender) ==
    IF pauseError(sender) # "ok" THEN Reverted
    ELSE /\ paused' = TRUE
         /\ UNCHANGED <<owner, isProvider, lastSubmissionTime,
                        lastDecryptionRequestTime, cooldownSeconds,
                        decryptionContexts, batches, currentBatchId,
                        oracleRequests, now,
                        lastEvent, evaluated>>

unpauseError(sender) ==
    IF ~onlyOwner(sender) THEN "NotOwner"
    ELSE IF ~paused THEN "Paused"
    ELSE "ok"

unpause(sender) ==
    IF unpauseError(sender) # "ok" THEN Reverted
    ELSE /\ paused' = FALSE
         /\ UNCHANGED <<owner, isProvider, lastSubmissionTime,
                        lastDecryptionRequestTime, cooldownSeconds,
                        decryptionContexts, batches, currentBatchId,
                        oracleRequests, now,
                        lastEvent, evaluated>>

setCooldownSecondsError(sender, newCooldown) ==
    IF ~onlyOwner(sender) THEN "NotOwner"
    ELSE IF ~(newCooldown > 0) THEN "Cooldown must be positive"
    ELSE "ok"

setCooldownSeconds(sender, newCooldown) ==
    IF setCooldownSecondsError(sender, newCooldown) # "ok" THEN Reverted
    ELSE /\ cooldownSeconds' = newCooldown
         /\ UNCHANGED <<owner, isProvider, lastSubmissionTime,
                        lastDecryptionRequestTime, paused, decryptionContexts,
                        batches, currentBatchId, oracleRequests, now,
                        lastEvent, evaluated>>

\* ------------------------------------------------------------------ batches
\* the checks of openBatch without the check of the batch
openBatchError_reopens(sender) ==
    IF ~onlyOwner(sender) THEN "NotOwner"
    ELSE IF ~whenNotPaused THEN "Paused"
    ELSE "ok"

openBatchError(sender) ==
    IF ~onlyOwner(sender) THEN "NotOwner"
    ELSE IF ~whenNotPaused THEN "Paused"
    ELSE IF batches[currentBatchId].isOpen THEN "BatchOpen"
    ELSE "ok"

\* openBatch that marks the batch open without writing its five fields
openBatch_keepsFields(sender) ==
    IF openBatchError(sender) # "ok" THEN Reverted
    ELSE /\ batches' = [batches EXCEPT ![currentBatchId].isOpen = TRUE]
         /\ UNCHANGED <<owner, isProvider, lastSubmissionTime,
                        lastDecryptionRequestTime, cooldownSeconds, paused,
                        decryptionContexts, currentBatchId, oracleRequests, now,
                        lastEvent, evaluated>>

\* openBatch that opens batch 0 instead of the current one
openBatch_opensZero(sender) ==
    IF openBatchError(sender) # "ok" THEN Reverted
    ELSE /\ batches' = [batches EXCEPT ![0] =
                [@ EXCEPT !.isOpen = TRUE,
                          !.totalAmountEncrypted = asEuint32(U32(0)),
                          !.numApprovalsEncrypted = asEuint32(U32(0)),
                          !.threshold2Encrypted = asEuint32(U32(DefaultThreshold2)),
                          !.threshold4Encrypted = asEuint32(U32(DefaultThreshold4)),
                          !.limitEncrypted = asEuint32(U32(DefaultLimit))]]
         /\ UNCHANGED <<owner, isProvider, lastSubmissionTime,
                        lastDecryptionRequestTime, cooldownSeconds, paused,
                        decryptionContexts, currentBatchId, oracleRequests, now,
                        lastEvent, evaluated>>

openBatch(sender) ==
    IF openBatchError(sender) # "ok" THEN Reverted
    ELSE /\ batches' = [batches EXCEPT ![currentBatchId] =
                [@ EXCEPT !.isOpen = TRUE,
                          !.totalAmountEncrypted = asEuint32(U32(0)),
                          !.numApprovalsEncrypted = asEuint32(U32(0)),
                          !.threshold2Encrypted = asEuint32(U32(DefaultThreshold2)),
                          !.threshold4Encrypted = asEuint32(U32(DefaultThreshold4)),
                          !.limitEncrypted = asEuint32(U32(DefaultLimit))]]
         /\ UNCHANGED <<owner, isProvider, lastSubmissionTime,
                        lastDecryptionRequestTime, cooldownSeconds, paused,
                        decryptionContexts, currentBatchId, oracleRequests, now,
                        lastEvent, evaluated>>

\* the checks of closeBatch without the check of the batch
closeBatchError_anyBatch(sender) ==
    IF ~onlyOwner(sender) THEN "NotOwner"
    ELSE IF ~whenNotPaused THEN "Paused"
    ELSE "ok"

closeBatchError(sender) ==
    IF ~onlyOwner(sender) THEN "NotOwner"
    ELSE IF ~whenNotPaused THEN "Paused"
    ELSE IF ~batches[currentBatchId].isOpen THEN "BatchClosed"
    ELSE "ok"

\* closeBatch where the batch is left open
closeBatchEffect_leftOpen ==
    /\ batches' = batches
    /\ currentBatchId' = currentBatchId + 1
\* closeBatch where the current id is not advanced
closeBatchEffect_sameId ==
    /\ batches' = [batches EXCEPT ![currentBatchId].isOpen = FALSE]
    /\ currentBatchId' = currentBatchId

\* closeBatch where the current id steps back
closeBatchEffect_stepsBack ==
    /\ batches' = [batches EXCEPT ![currentBatchId].isOpen = FALSE]
    /\ currentBatchId' = currentBatchId - 1

\* what closeBatch writes: the batch table and the current id
closeBatchEffect ==
    /\ batches' = [batches EXCEPT ![currentBatchId].isOpen = FALSE]
    /\ currentBatchId' = currentBatchId + 1

closeBatch(sender) ==
    IF closeBatchError(sender) # "ok" THEN Reverted
    ELSE /\ currentBatchId < MaxBatchId
         /\ closeBatchEffect
         /\ UNCHANGED <<owner, isProvider, lastSubmissionTime,
                        lastDecryptionRequestTime, cooldownSeconds, paused,
                        decryptionContexts, oracleRequests, now,
                        lastEvent, evaluated>>

\* number of homomorphic additions behind a running total
Additions(h) == (Len(h.id) - 3) \div 4

\* the checks of setPolicyParameters with a validation of the values
setPolicyParametersError_validated(sender, i) ==
    IF ~onlyProvider(sender) THEN "NotProvider"
    ELSE IF ~whenNotPaused THEN "Paused"
    ELSE IF ~respectCooldown(sender) THEN "CooldownActive"
    ELSE IF ~batches[currentBatchId].isOpen THEN "BatchClosed"
    ELSE IF PolicyInputs[i][1] > PolicyInputs[i][2] THEN "InvalidThreshold"
    ELSE IF PolicyInputs[i][3] = 0 THEN "InvalidLimit"
    ELSE "ok"

setPolicyParametersError(sender, i) ==
    IF ~onlyProvider(sender) THEN "NotProvider"
    ELSE IF ~whenNotPaused THEN "Paused"
    ELSE IF ~respectCooldown(sender) THEN "CooldownActive"
    ELSE IF ~batches[currentBatchId].isOpen THEN "BatchClosed"
    ELSE "ok"

\* setPolicyParameters where the decryption-request clock is written
setPolicyParameters_wrongClock(sender, i) ==
    LET threshold2 == InputEuint32(U32(PolicyInputs[i][1]))
        threshold4 == InputEuint32(U32(PolicyInputs[i][2]))
        limit == InputEuint32(U32(PolicyInputs[i][3]))
    IN
    IF setPolicyParametersError(sender, i) # "ok" THEN Reverted
    ELSE /\ batches' = [batches EXCEPT ![currentBatchId] =
                [@ EXCEPT !.threshold2Encrypted = threshold2,
                          !.threshold4Encrypted = threshold4,
                          !.limitEncrypted = limit]]
         /\ lastDecryptionRequestTime' =
                [lastDecryptionRequestTime EXCEPT ![sender] = now]
         /\ UNCHANGED <<owner, isProvider, lastSubmissionTime,
                        cooldownSeconds, paused, decryptionContexts,
                        currentBatchId, oracleRequests, now, lastEvent, evaluated>>

\* setPolicyParameters that also clears the running totals
setPolicyParameters_clearsTotals(sender, i) ==
    LET threshold2 == InputEuint32(U32(PolicyInputs[i][1]))
        threshold4 == InputEuint32(U32(PolicyInputs[i][2]))
        limit == InputEuint32(U32(PolicyInputs[i][3]))
    IN
    IF setPolicyParametersError(sender, i) # "ok" THEN Reverted
    ELSE /\ batches' = [batches EXCEPT ![currentBatchId] =
                [@ EXCEPT !.totalAmountEncrypted = asEuint32(U32(0)),
                          !.numApprovalsEncrypted = asEuint32(U32(0)),
                          !.threshold2Encrypted = threshold2,
                          !.threshold4Encrypted = threshold4,
                          !.limitEncrypted = limit]]
         /\ lastSubmissionTime' = [lastSubmissionTime EXCEPT ![sender] = now]
         /\ UNCHANGED <<owner, isProvider, lastDecryptionRequestTime,
                        cooldownSeconds, paused, decryptionContexts,
                        currentBatchId, oracleRequests, now, lastEvent, evaluated>>

setPolicyParameters(sender, i) ==
    LET threshold2 == InputEuint32(U32(PolicyInputs[i][1]))
        threshold4 == InputEuint32(U32(PolicyInputs[i][2]))
        limit == InputEuint32(U32(PolicyInputs[i][3]))
    IN
    IF setPolicyParametersError(sender, i) # "ok" THEN Reverted
    ELSE /\ batches' = [batches EXCEPT ![currentBatchId] =
                [@ EXCEPT !.threshold2Encrypted = threshold2,
                          !.threshold4Encrypted = threshold4,
                          !.limitEncrypted = limit]]
         /\ lastSubmissionTime' = [lastSubmissionTime EXCEPT ![sender] = now]
         /\ UNCHANGED <<owner, isProvider, lastDecryptionRequestTime,
                        cooldownSeconds, paused, decryptionContexts,
                        currentBatchId, oracleRequests, now, lastEvent, evaluated>>

\* the checks of submitTransaction without the check of the batch
submitTransactionError_anyBatch(sender, i) ==
    IF ~onlyProvider(sender) THEN "NotProvider"
    ELSE IF ~whenNotPaused THEN "Paused"
    ELSE IF ~respectCooldown(sender) THEN "CooldownActive"
    ELSE "ok"

\* the checks of submitTransaction with the cooldown looked at before the
\* pause switch
submitTransactionError_cooldownFirst(sender, i) ==
    IF ~onlyProvider(sender) THEN "NotProvider"
    ELSE IF ~respectCooldown(sender) THEN "CooldownActive"
    ELSE IF ~whenNotPaused THEN "Paused"
    ELSE IF ~batches[currentBatchId].isOpen THEN "BatchClosed"
    ELSE "ok"

submitTransactionError(sender, i) ==
    IF ~onlyProvider(sender) THEN "NotProvider"
    ELSE IF ~whenNotPaused THEN "Paused"
    ELSE IF ~respectCooldown(sender) THEN "CooldownActive"
    ELSE IF ~batches[currentBatchId].isOpen THEN "BatchClosed"
    ELSE "ok"

\* submitTransaction where a call rejected for its batch still stamps the
\* caller's submission clock
submitTransaction_stampOnRevert(sender, i) ==
    LET amount == InputEuint32(U32(SubmitInputs[i][1]))
        numApprovals == InputEuint32(U32(SubmitInputs[i][2]))
    IN
    IF submitTransactionError(sender, i) = "BatchClosed"
    THEN /\ lastSubmissionTime' = [lastSubmissionTime EXCEPT ![sender] = now]
         /\ UNCHANGED <<owner, isProvider, lastDecryptionRequestTime,
                        cooldownSeconds, paused, decryptionContexts, batches,
                        currentBatchId, oracleRequests, now, lastEvent, evaluated>>
    ELSE IF submitTransactionError(sender, i) # "ok" THEN Reverted
    ELSE /\ Additions(batches[currentBatchId].totalAmountEncrypted) < MaxSubmits
         /\ batches' = [batches EXCEPT ![currentBatchId] =
                [@ EXCEPT !.totalAmountEncrypted = FHE_add(@, amount),
                          !.numApprovalsEncrypted = FHE_add(@, numApprovals)]]
         /\ lastSubmissionTime' = [lastSubmissionTime EXCEPT ![sender] = now]
         /\ UNCHANGED <<owner, isProvider, lastDecryptionRequestTime,
                        cooldownSeconds, paused, decryptionContexts,
                        currentBatchId, oracleRequests, now, lastEvent, evaluated>>

submitTransaction(sender, i) ==
    LET amount == InputEuint32(U32(SubmitInputs[i][1]))
        numApprovals == InputEuint32(U32(SubmitInputs[i][2]))
    IN
    IF submitTransactionError(sender, i) # "ok" THEN Reverted
    ELSE /\ Additions(batches[currentBatchId].totalAmountEncrypted) < MaxSubmits
         /\ batches' = [batches EXCEPT ![currentBatchId] =
                [@ EXCEPT !.totalAmountEncrypted = FHE_add(@, amount),
                          !.numApprovalsEncrypted = FHE_add(@, numApprovals)]]
         /\ lastSubmissionTime' = [lastSubmissionTime EXCEPT ![sender] = now]
         /\ UNCHANGED <<owner, isProvider, lastDecryptionRequestTime,
                        cooldownSeconds, paused, decryptionContexts,
                        currentBatchId, oracleRequests, now, lastEvent, evaluated>>

\* ------------------------------------------------------ predicate evaluator
\* the predicate with the two thresholds exchanged
requestPredicate_swapped(batch) ==
    LET amount == batch.totalAmountEncrypted
        numApprovals == batch.numApprovalsEncrypted
        threshold2 == batch.threshold2Encrypted
        threshold4 == batch.threshold4Encrypted
        limit == batch.limitEncrypted
        condition1 == FHE_le(amount, limit)
        condition2 == FHE_gt(amount, limit)
    IN  FHE_or(FHE_and(condition1, FHE_ge(numApprovals, threshold4)),
               FHE_and(condition2, FHE_ge(numApprovals, threshold2)))

\* the encrypted boolean requestApprovalStatus builds from a batch
requestPredicate(batch) ==
    LET amount == batch.totalAmountEncrypted
        numApprovals == batch.numApprovalsEncrypted
        threshold2 == batch.threshold2Encrypted
        threshold4 == batch.threshold4Encrypted
        limit == batch.limitEncrypted
        condition1 == FHE_le(amount, limit)
        condition2 == FHE_gt(amount, limit)
    IN  FHE_or(FHE_and(condition1, FHE_ge(numApprovals, threshold2)),
               FHE_and(condition2, FHE_ge(numApprovals, threshold4)))

\* the encrypted boolean myCallback builds again from the batch
callbackPredicate(batch) ==
    LET amount == batch.totalAmountEncrypted
        numApprovals == batch.numApprovalsEncrypted
        threshold2 == batch.threshold2Encrypted
        threshold4 == batch.threshold4Encrypted
        limit == batch.limitEncrypted
        condition1 == FHE_le(amount, limit)
        condition2 == FHE_gt(amount, limit)
    IN  FHE_or(FHE_and(condition1, FHE_ge(numApprovals, threshold2)),
               FHE_and(condition2, FHE_ge(numApprovals, threshold4)))

\* ------------------------------------------------------ decryption protocol
\* the oracle assigns request ids 0, 1, 2, ... and keeps the ciphertexts
requestDecryptionId == Len(oracleRequests)
\* the key holders sign only the true cleartext of a ciphertext they were
\* asked to decrypt, under the id of that request
checkSignatures(requestId, cleartexts, proof) ==
    /\ proof = "kms"
    /\ requestId + 1 \in DOMAIN oracleRequests
    /\ cleartexts = Decrypt(oracleRequests[requestId + 1][1])

\* the check of the target batch in requestApprovalStatus
requestTargetRejected(batchId) ==
    batchId >= currentBatchId \/ ~batches[batchId].isOpen

requestApprovalStatusError(sender, batchId) ==
    IF ~whenNotPaused THEN "Paused"
    ELSE IF ~respectCooldown(sender) THEN "CooldownActive"
    ELSE IF requestTargetRejected(batchId) THEN "BatchClosed"
    ELSE "ok"

requestApprovalStatus(sender, batchId) ==
    LET approvalStatus == requestPredicate(batches[batchId])
        cts == <<toBytes32(approvalStatus)>>
        stateHash == hashCiphertexts(cts)
        requestId == requestDecryptionId
    IN
    IF requestApprovalStatusError(sender, batchId) # "ok" THEN Reverted
    ELSE /\ requestId \in RequestIds
         /\ oracleRequests' = Append(oracleRequests, <<approvalStatus>>)
         /\ decryptionContexts' = [decryptionContexts EXCEPT ![requestId] =
                [batchId |-> batchId, stateHash |-> stateHash, processed |-> FALSE]]
         /\ lastDecryptionRequestTime' =
                [lastDecryptionRequestTime EXCEPT ![sender] = now]
         /\ lastEvent' = Event("DecryptionRequested", requestId, batchId, FALSE)
         /\ UNCHANGED <<owner, isProvider, lastSubmissionTime, cooldownSeconds,
                        paused, batches, currentBatchId, now, evaluated>>

\* the hash myCallback recomputes from the current state of the context's batch
callbackHash(requestId) ==
    LET batch == batches[decryptionContexts[requestId].batchId]
        approvalStatus == callbackPredicate(batch)
        currentCts == <<toBytes32(approvalStatus)>>
    IN  hashCiphertexts(currentCts)

\* the checks of myCallback reduced to the replay check
myCallbackError_replayOnly(requestId, cleartexts, proof) ==
    IF decryptionContexts[requestId].processed THEN "ReplayAttempt" ELSE "ok"

myCallbackError(requestId, cleartexts, proof) ==
    IF decryptionContexts[requestId].processed THEN "ReplayAttempt"
    ELSE IF callbackHash(requestId) # decryptionContexts[requestId].stateHash
    THEN "StateMismatch"
    ELSE IF ~checkSignatures(requestId, cleartexts, proof) THEN "DecryptionFailed"
    ELSE "ok"

myCallback(requestId, cleartexts, proof) ==
    LET approved == cleartexts IN
    IF myCallbackError(requestId, cleartexts, proof) # "ok" THEN Reverted
    ELSE /\ decryptionContexts' =
                [decryptionContexts EXCEPT ![requestId].processed = TRUE]
         /\ lastEvent' = Event("DecryptionCompleted", requestId,
                              decryptionContexts[requestId].batchId, approved)
         /\ UNCHANGED <<owner, isProvider, lastSubmissionTime,
                        lastDecryptionRequestTime, cooldownSeconds, paused,
                        batches, currentBatchId, oracleRequests, now,
                        evaluated>>

\* -------------------------------------------------------------- environment
\* a later block: block.timestamp grows
AdvanceTime ==
    /\ now + TimeStep <= MaxTime
    /\ now' = now + TimeStep
    /\ UNCHANGED <<storage, lastEvent, evaluated>>

Next ==
    \/ \E s \in Addr, a \in Addr : transferOwnership(s, a)
    \/ \E s \in Addr, a \in Addr : addProvider(s, a)
    \/ \E s \in Addr, a \in Addr : removeProvider(s, a)
    \/ \E s \in Addr : pause(s)
    \/ \E s \in Addr : unpause(s)
    \/ \E s \in Addr, c \in CooldownInputs : setCooldownSeconds(s, c)
    \/ \E s \in Addr : openBatch(s)
    \/ \E s \in Addr : closeBatch(s)
    \/ \E s \in Addr, i \in DOMAIN PolicyInputs : setPolicyParameters(s, i)
    \/ \E s \in Addr, i \in DOMAIN SubmitInputs : submitTransaction(s, i)
    \/ \E s \in Addr, b \in BatchIds : requestApprovalStatus(s, b)
    \/ \E r \in RequestIds, c \in BOOLEAN, p \in Proofs : myCallback(r, c, p)
    \/ AdvanceTime

Spec == Init /\ [][Next]_vars

\* ------------------------------------------- the predicate evaluator alone
\* cleartexts the five fields of a batch are drawn from
PredicateValues == {0, 2, 4, 10000, 65536}

\* The contract after openBatch, setPolicyParameters(threshold2, threshold4,
\* limit) and, a cooldown later, submitTransaction(amount, numApprovals), all
\* by the deployer, for every choice of the five cleartexts.
InitPredicate ==
    \E amount \in PredicateValues, numApprovals \in PredicateValues,
       threshold2 \in PredicateValues, threshold4 \in PredicateValues,
       limit \in PredicateValues :
        /\ owner = Deployer
        /\ isProvider = [a \in Addr |-> a = Deployer]
        /\ lastSubmissionTime =
               [a \in Addr |-> IF a = Deployer THEN StartTime + DefaultCooldown ELSE 0]
        /\ lastDecryptionRequestTime = [a \in Addr |-> 0]
        /\ cooldownSeconds = DefaultCooldown
        /\ paused = FALSE
        /\ decryptionContexts = [r \in RequestIds |-> EmptyContext]
        /\ batches = [b \in BatchIds |->
               IF b = FirstBatchId
               THEN [id |-> 0, isOpen |-> TRUE,
                     totalAmountEncrypted |->
                         FHE_add(asEuint32(U32(0)), InputEuint32(U32(amount))),
                     numApprovalsEncrypted |->
                         FHE_add(asEuint32(U32(0)), InputEuint32(U32(numApprovals))),
                     threshold2Encrypted |-> InputEuint32(U32(threshold2)),
                     threshold4Encrypted |-> InputEuint32(U32(threshold4)),
                     limitEncrypted |-> InputEuint32(U32(limit))]
               ELSE EmptyBatch]
        /\ currentBatchId = FirstBatchId
        /\ oracleRequests = <<>>
        /\ now = StartTime + DefaultCooldown
        /\ lastEvent = NoEvent
        /\ evaluated = NotEvaluated

\* the two evaluations of the predicate, applied to the open batch
evaluatePredicate ==
    /\ ~evaluated.done
    /\ evaluated' = [done |-> TRUE,
                     request |-> requestPredicate(batches[currentBatchId]),
                     callback |-> callbackPredicate(batches[currentBatchId])]
    /\ UNCHANGED <<storage, now, lastEvent>>

NextPredicate == evaluatePredicate

SpecPredicate == InitPredicate /\ [][NextPredicate]_vars

\* --------------------------------------------- submissions up to the width
\* (amount, numApprovals) pairs near the 32-bit width, as pairs of limbs
WideSubmitInputs ==
    << <<U32Max, U32(1)>>,
       << <<Limb \div 2, 0>>, U32Max >>,
       <<U32(5000), U32(2)>> >>

\* The contract after the constructor, addProvider of the second address,
\* setCooldownSeconds(TimeStep) and openBatch, all by the deployer.
InitAccumulate ==
    /\ owner = Deployer
    /\ isProvider = [a \in Addr |-> TRUE]
    /\ lastSubmissionTime = [a \in Addr |-> 0]
    /\ lastDecryptionRequestTime = [a \in Addr |-> 0]
    /\ cooldownSeconds = TimeStep
    /\ paused = FALSE
    /\ decryptionContexts = [r \in RequestIds |-> EmptyContext]
    /\ batches = [b \in BatchIds |->
           IF b = FirstBatchId
           THEN [EmptyBatch EXCEPT
                    !.isOpen = TRUE,
                    !.totalAmountEncrypted = asEuint32(U32(0)),
                    !.numApprovalsEncrypted = asEuint32(U32(0)),
                    !.threshold2Encrypted = asEuint32(U32(DefaultThreshold2)),
                    !.threshold4Encrypted = asEuint32(U32(DefaultThreshold4)),
                    !.limitEncrypted = asEuint32(U32(DefaultLimit))]
           ELSE EmptyBatch]
    /\ currentBatchId = FirstBatchId
    /\ oracleRequests = <<>>
    /\ now = StartTime
    /\ lastEvent = NoEvent
    /\ evaluated = NotEvaluated

\* submitTransaction with the inputs drawn from WideSubmitInputs
submitTransactionWide(sender, i) ==
    LET amount == InputEuint32(WideSubmitInputs[i][1])
        numApprovals == InputEuint32(WideSubmitInputs[i][2])
    IN
    IF submitTransactionError(sender, i) # "ok" THEN Reverted
    ELSE /\ Additions(batches[currentBatchId].totalAmountEncrypted) < MaxWideSubmits
         /\ batches' = [batches EXCEPT ![currentBatchId] =
                [@ EXCEPT !.totalAmountEncrypted = FHE_add(@, amount),
                          !.numApprovalsEncrypted = FHE_add(@, numApprovals)]]
         /\ lastSubmissionTime' = [lastSubmissionTime EXCEPT ![sender] = now]
         /\ UNCHANGED <<owner, isProvider, lastDecryptionRequestTime,
                        cooldownSeconds, paused, decryptionContexts,
                        currentBatchId, oracleRequests, now, lastEvent, evaluated>>

AdvanceTimeWide ==
    /\ now + TimeStep <= StartTime + MaxWideTicks * TimeStep
    /\ now' = now + TimeStep
    /\ UNCHANGED <<storage, lastEvent, evaluated>>

NextAccumulate ==
    \/ \E s \in Addr, i \in DOMAIN WideSubmitInputs : submitTransactionWide(s, i)
    \/ AdvanceTimeWide

SpecAccumulate == InitAccumulate /\ [][NextAccumulate]_vars

\* ================================================================== claims
\* a cleartext below 2^31 as a number
ToInt(v) == v[1] * Limb + v[2]
OpenBatchIds == {b \in BatchIds : batches[b].isOpen}
\* a batch that was opened (its fields were set) and is not open any more
ClosedBatch(b) == ~batches[b].isOpen /\ isInitialized(batches[b].limitEncrypted)

\* C1: when the system is not paused, the caller's cooldown is satisfied and
\* batchId is the id of the batch that is currently open,
\* requestApprovalStatus(batchId) succeeds (and then stores the context).
\* Stated as the claim; the contract violates it.
C1_RequestOnOpenBatchSucceeds ==
    \A s \in Addr :
        (whenNotPaused /\ respectCooldown(s) /\ batches[currentBatchId].isOpen)
            => requestApprovalStatusError(s, currentBatchId) = "ok"

\* No decryption request is ever registered: requestApprovalStatus rejects the
\* only batch that can be open (C1), so no context is written, the oracle holds
\* no request and no decryption event is emitted.  The cases of C2, C3, C4 and
\* C5 (a pending or a processed context) therefore never occur.
RequestNeverRegistered ==
    /\ decryptionContexts = [r \in RequestIds |-> EmptyContext]
    /\ oracleRequests = <<>>
    /\ lastEvent = NoEvent
    /\ \A r \in RequestIds, c \in BOOLEAN, p \in Proofs :
           myCallbackError(r, c, p) = "StateMismatch"

\* C6: the encrypted boolean built by the predicate evaluation, in
\* requestApprovalStatus and in the callback, decrypts to
\* (amount <= limit /\ approvals >= thresholdLow) \/
\* (amount > limit /\ approvals >= thresholdHigh) over the decrypted fields.
PlainApproved(batch) ==
    LET amount == ToInt(Decrypt(batch.totalAmountEncrypted))
        approvals == ToInt(Decrypt(batch.numApprovalsEncrypted))
        thresholdLow == ToInt(Decrypt(batch.threshold2Encrypted))
        thresholdHigh == ToInt(Decrypt(batch.threshold4Encrypted))
        limit == ToInt(Decrypt(batch.limitEncrypted))
    IN  \/ (amount <= limit /\ approvals >= thresholdLow)
        \/ (amount > limit /\ approvals >= thresholdHigh)
C6_PredicateMatchesPlaintext ==
    evaluated.done =>
        /\ Decrypt(evaluated.request) = PlainApproved(batches[currentBatchId])
        /\ Decrypt(evaluated.callback) = PlainApproved(batches[currentBatchId])
\* an evaluation in the upper tier: amount above the limit, approvals between
\* the two thresholds, so that the result is FALSE only by thresholdHigh
C6_Witness ==
    LET batch == batches[currentBatchId] IN
    /\ evaluated.done
    /\ U32Gt(Decrypt(batch.totalAmountEncrypted), Decrypt(batch.limitEncrypted))
    /\ U32Ge(Decrypt(batch.numApprovalsEncrypted), Decrypt(batch.threshold2Encrypted))
    /\ ~U32Ge(Decrypt(batch.numApprovalsEncrypted), Decrypt(batch.threshold4Encrypted))
    /\ ~Decrypt(evaluated.request)

\* C7: Scenario A.  After openBatch and a provider's submitTransaction(5000, 2)
\* under the default limit 10000 and thresholdLow 2, a requestApprovalStatus on
\* that batch is accepted (and its callback then completes with approved =
\* TRUE).  Stated as the claim for the request the scenario starts with; the
\* contract violates it.
ScenarioA ==
    LET batch == batches[currentBatchId] IN
    /\ batch.isOpen
    /\ ~paused
    /\ batch.totalAmountEncrypted =
           FHE_add(asEuint32(U32(0)), InputEuint32(U32(5000)))
    /\ batch.numApprovalsEncrypted =
           FHE_add(asEuint32(U32(0)), InputEuint32(U32(2)))
    /\ batch.threshold2Encrypted = asEuint32(U32(DefaultThreshold2))
    /\ batch.limitEncrypted = asEuint32(U32(DefaultLimit))
C7_ScenarioARequestAccepted ==
    (ScenarioA /\ \E s \in Addr : respectCooldown(s))
        => \E s \in Addr : requestApprovalStatusError(s, currentBatchId) = "ok"

\* C8 as stated: while the pause switch is on, the only operation that
\* changes the state is unpause, which clears the switch.  The contract
\* violates it.
C8_OnlyUnpauseWhilePaused ==
    [][paused =>
          \/ storage' = storage
          \/ /\ ~paused'
             /\ <<owner, isProvider, lastSubmissionTime, lastDecryptionRequestTime,
                  cooldownSeconds, decryptionContexts, batches, currentBatchId,
                  oracleRequests>>' =
                <<owner, isProvider, lastSubmissionTime, lastDecryptionRequestTime,
                  cooldownSeconds, decryptionContexts, batches, currentBatchId,
                  oracleRequests>>]_vars

\* C8 amended: while the pause switch is on, pause, openBatch, closeBatch,
\* setPolicyParameters, submitTransaction and requestApprovalStatus reject
\* (with Paused, or with NotOwner / NotProvider for a caller without the role)
\* and batches, current batch id, cooldown timestamps and the oracle's
\* requests stay unchanged; only the owner can unpause, and the step that
\* clears the switch changes nothing else.  The owner's transferOwnership,
\* addProvider, removeProvider and setCooldownSeconds are not gated.
PauseGatedRejected ==
    \A s \in Addr :
        /\ pauseError(s) \in {"NotOwner", "Paused"}
        /\ openBatchError(s) \in {"NotOwner", "Paused"}
        /\ closeBatchError(s) \in {"NotOwner", "Paused"}
        /\ \A i \in DOMAIN PolicyInputs :
               setPolicyParametersError(s, i) \in {"NotProvider", "Paused"}
        /\ \A i \in DOMAIN SubmitInputs :
               submitTransactionError(s, i) \in {"NotProvider", "Paused"}
        /\ \A b \in BatchIds : requestApprovalStatusError(s, b) = "Paused"
        /\ (s # owner => unpauseError(s) = "NotOwner")
        /\ (s = owner => unpauseError(s) = "ok")
C8_PauseGatesBatchAndRequestEntryPoints ==
    [][paused =>
          /\ PauseGatedRejected
          /\ <<batches, currentBatchId, lastSubmissionTime,
               lastDecryptionRequestTime, oracleRequests>>' =
             <<batches, currentBatchId, lastSubmissionTime,
               lastDecryptionRequestTime, oracleRequests>>
          /\ (~paused' =>
                 <<owner, isProvider, cooldownSeconds, decryptionContexts>>' =
                 <<owner, isProvider, cooldownSeconds, decryptionContexts>>)]_vars
\* paused with a batch open and a provider outside its cooldown, after the
\* owner changed the provider list while paused
C8_Witness ==
    /\ paused
    /\ batches[currentBatchId].isOpen
    /\ \E s \in Addr : isProvider[s] /\ respectCooldown(s)
    /\ isProvider # [a \in Addr |-> a = Deployer]

\* C9: in every reachable state at most one batch id is open.
C9_AtMostOneOpenBatch == Cardinality(OpenBatchIds) <= 1
\* a second batch is open after the first was closed
C9_Witness ==
    /\ currentBatchId > FirstBatchId
    /\ batches[currentBatchId].isOpen
    /\ ClosedBatch(FirstBatchId)

\* C10: a closed batch is immutable: no step changes the isOpen flag or any
\* of the five encrypted fields of a batch that was opened and closed.
C10_ClosedBatchImmutable ==
    [][\A b \in BatchIds : ClosedBatch(b) => batches'[b] = batches[b]]_vars
\* the first batch is closed with a submission in it, and the next batch has
\* been opened, given new policy parameters and a submission
C10_Witness ==
    /\ ClosedBatch(FirstBatchId)
    /\ Additions(batches[FirstBatchId].totalAmountEncrypted) > 0
    /\ batches[currentBatchId].isOpen
    /\ Additions(batches[currentBatchId].totalAmountEncrypted) > 0

\* the time of the sender's last successful rate-limited call (0: none yet)
LastRateLimitedCall(s) ==
    IF lastSubmissionTime[s] >= lastDecryptionRequestTime[s]
    THEN lastSubmissionTime[s] ELSE lastDecryptionRequestTime[s]
\* everything a rate-limited call of s needs apart from the cooldown: s is a
\* provider, the system is not paused and the current batch is open
RateLimitedCallReady(s) ==
    /\ isProvider[s]
    /\ whenNotPaused
    /\ batches[currentBatchId].isOpen

\* C11: cooldown monotonicity.  A sender whose last rate-limited call
\* succeeded at t1 and who makes a second one (submitTransaction,
\* setPolicyParameters or requestApprovalStatus on the open batch) at t2 with
\* all other preconditions met: the second fails with CooldownActive when
\* t2 - t1 < cooldown, and succeeds when t2 - t1 >= cooldown.  Stated as the
\* claim; the contract violates it for requestApprovalStatus as second call.
C11_CooldownMonotonicity ==
    \A s \in Addr :
        (RateLimitedCallReady(s) /\ LastRateLimitedCall(s) > 0) =>
            LET expected == IF now - LastRateLimitedCall(s) < cooldownSeconds
                            THEN "CooldownActive" ELSE "ok"
            IN  /\ \A i \in DOMAIN SubmitInputs :
                       submitTransactionError(s, i) = expected
                /\ \A i \in DOMAIN PolicyInputs :
                       setPolicyParametersError(s, i) = expected
                /\ requestApprovalStatusError(s, currentBatchId) = expected
\* the same for the two provider calls alone, which the contract satisfies
C11_ProviderCallsCooldown ==
    \A s \in Addr :
        (RateLimitedCallReady(s) /\ LastRateLimitedCall(s) > 0) =>
            LET expected == IF now - LastRateLimitedCall(s) < cooldownSeconds
                            THEN "CooldownActive" ELSE "ok"
            IN  /\ \A i \in DOMAIN SubmitInputs :
                       submitTransactionError(s, i) = expected
                /\ \A i \in DOMAIN PolicyInputs :
                       setPolicyParametersError(s, i) = expected
                /\ requestApprovalStatusError(s, currentBatchId)
                       \in {"CooldownActive", "BatchClosed"}

\* C12: a successful submitTransaction or setPolicyParameters sets only the
\* caller's last-submission timestamp, to the current time, and leaves every
\* last-decryption-request timestamp unchanged; a successful
\* requestApprovalStatus sets only the caller's last-decryption-request
\* timestamp and leaves every last-submission timestamp unchanged; no call
\* changes another sender's timestamps.  The caller of a step is an address
\* whose call was admitted in the state before the step.
SubmissionStamped == {a \in Addr : lastSubmissionTime'[a] # lastSubmissionTime[a]}
RequestStamped ==
    {a \in Addr : lastDecryptionRequestTime'[a] # lastDecryptionRequestTime[a]}
\* a step that writes a policy field or a running total of the open batch
ProviderCallStep ==
    /\ batches[currentBatchId].isOpen
    /\ currentBatchId' = currentBatchId
    /\ batches'[currentBatchId].isOpen
    /\ batches' # batches
C12_TimestampFrame ==
    [][/\ Cardinality(SubmissionStamped \cup RequestStamped) <= 1
       /\ \A a \in SubmissionStamped :
              /\ lastSubmissionTime'[a] = now
              /\ \/ \E i \in DOMAIN SubmitInputs :
                        submitTransactionError(a, i) = "ok"
                 \/ \E i \in DOMAIN PolicyInputs :
                        setPolicyParametersError(a, i) = "ok"
       /\ \A a \in RequestStamped :
              /\ lastDecryptionRequestTime'[a] = now
              /\ \E b \in BatchIds : requestApprovalStatusError(a, b) = "ok"
       /\ (ProviderCallStep =>
              Cardinality(SubmissionStamped) = 1 /\ RequestStamped = {})
       /\ (decryptionContexts' # decryptionContexts /\ oracleRequests' # oracleRequests
              => Cardinality(RequestStamped) = 1 /\ SubmissionStamped = {})]_vars
\* two senders have each made a successful provider call, at different times,
\* and no decryption-request timestamp was written
C12_Witness ==
    /\ \E s, t \in Addr :
           /\ 0 < lastSubmissionTime[s]
           /\ lastSubmissionTime[s] < lastSubmissionTime[t]
    /\ lastDecryptionRequestTime = [a \in Addr |-> 0]

\* C13: all-or-nothing execution.  A call that fails leaves the whole state
\* unchanged: whenever a part of the state changes, a call that writes that
\* part was admitted in the state before the step; in particular a sender's
\* cooldown timestamps advance only in a step where a rate-limited call of
\* that sender was admitted.
ProviderCallAdmitted(a) ==
    \/ \E i \in DOMAIN SubmitInputs : submitTransactionError(a, i) = "ok"
    \/ \E i \in DOMAIN PolicyInputs : setPolicyParametersError(a, i) = "ok"
RequestAdmitted(a) ==
    \E b \in BatchIds : requestApprovalStatusError(a, b) = "ok"
C13_AllOrNothing ==
    [][/\ (owner' # owner =>
              \E s \in Addr : transferOwnershipError(s, owner') = "ok")
       /\ (isProvider' # isProvider =>
              \E s, a \in Addr : \/ addProviderError(s, a) = "ok"
                                 \/ removeProviderError(s, a) = "ok")
       /\ (paused' # paused =>
              \E s \in Addr : IF paused THEN unpauseError(s) = "ok"
                              ELSE pauseError(s) = "ok")
       /\ (cooldownSeconds' # cooldownSeconds =>
              \E s \in Addr : setCooldownSecondsError(s, cooldownSeconds') = "ok")
       /\ (currentBatchId' # currentBatchId =>
              \E s \in Addr : closeBatchError(s) = "ok")
       /\ (batches' # batches =>
              \E s \in Addr : \/ openBatchError(s) = "ok"
                              \/ closeBatchError(s) = "ok"
                              \/ ProviderCallAdmitted(s))
       /\ \A a \in Addr :
              /\ (lastSubmissionTime'[a] # lastSubmissionTime[a]
                     => ProviderCallAdmitted(a))
              /\ (lastDecryptionRequestTime'[a] # lastDecryptionRequestTime[a]
                     => RequestAdmitted(a))
       /\ (<<decryptionContexts, oracleRequests, lastEvent>>' #
           <<decryptionContexts, oracleRequests, lastEvent>> =>
              \/ \E s \in Addr : RequestAdmitted(s)
              \/ \E r \in RequestIds, c \in BOOLEAN, p \in Proofs :
                     myCallbackError(r, c, p) = "ok")]_vars
\* one provider is rejected for its cooldown after a submission of its own,
\* another for the closed batch, and a third call is rejected for the role
C13_Witness ==
    /\ \E s \in Addr : /\ lastSubmissionTime[s] > 0
                       /\ submitTransactionError(s, 1) = "CooldownActive"
    /\ \E s \in Addr : setPolicyParametersError(s, 1) = "BatchClosed"
    /\ \E s \in Addr : closeBatchError(s) = "NotOwner"

\* C14: submitTransaction and setPolicyParameters called by an address that
\* is not in the provider allow-list fail with NotProvider, whatever the
\* pause switch, the cooldown and the batch are; this holds for the owner
\* too, and for a provider once it was removed.
C14_NonProviderRejected ==
    \A s \in Addr :
        ~isProvider[s] =>
            /\ \A i \in DOMAIN SubmitInputs :
                   submitTransactionError(s, i) = "NotProvider"
            /\ \A i \in DOMAIN PolicyInputs :
                   setPolicyParametersError(s, i) = "NotProvider"
\* the owner submitted as a provider, was removed from the allow-list, its
\* cooldown has elapsed and the batch is still open
C14_Witness ==
    /\ ~isProvider[owner]
    /\ lastSubmissionTime[owner] > 0
    /\ respectCooldown(owner)
    /\ whenNotPaused
    /\ batches[currentBatchId].isOpen

\* C15: openBatch and closeBatch called by an address other than the current
\* owner, a registered provider included, fail with NotOwner (and so leave
\* the batches and the current batch id unchanged).
C15_NonOwnerRejected ==
    \A s \in Addr :
        s # owner => /\ openBatchError(s) = "NotOwner"
                     /\ closeBatchError(s) = "NotOwner"
\* a registered provider that is not the owner, with the first batch closed
\* and the next one not yet open, the system not paused
C15_Witness ==
    /\ \E s \in Addr : s # owner /\ isProvider[s]
    /\ whenNotPaused
    /\ ClosedBatch(FirstBatchId)
    /\ ~batches[currentBatchId].isOpen
    /\ owner # Deployer

ClosedBatchError(s) ==
    IF paused THEN "Paused"
    ELSE IF now - LastRateLimitedCall(s) < cooldownSeconds THEN "CooldownActive"
    ELSE "BatchClosed"
C17_OpenBatchOnOpenBatch ==
    \A s \in Addr :
        batches[currentBatchId].isOpen => openBatchError(s) = "BatchOpen"
\* C17 amended: openBatch on a batch that is already open fails, with
\* BatchOpen when called by the owner while the system is not paused (with
\* NotOwner for another caller, else with Paused), and no step resets the
\* totals, thresholds or limit of a batch that is open: they change only by
\* an admitted submitTransaction or setPolicyParameters.
C17_OpenBatchOnOpenBatchRejected ==
    [][batches[currentBatchId].isOpen =>
          /\ \A s \in Addr :
                 openBatchError(s) = IF s # owner THEN "NotOwner"
                                     ELSE IF paused THEN "Paused"
                                     ELSE "BatchOpen"
          /\ (batches'[currentBatchId] # batches[currentBatchId] =>
                 \/ /\ ~batches'[currentBatchId].isOpen
                    /\ batches'[currentBatchId] =
                           [batches[currentBatchId] EXCEPT !.isOpen = FALSE]
                 \/ \E s \in Addr : ProviderCallAdmitted(s))]_vars
\* an open batch with a submission and changed policy parameters, the system
\* not paused, so that the owner's openBatch is rejected with BatchOpen
C17_Witness ==
    LET batch == batches[currentBatchId] IN
    /\ batch.isOpen
    /\ whenNotPaused
    /\ Additions(batch.totalAmountEncrypted) > 0
    /\ batch.limitEncrypted # asEuint32(U32(DefaultLimit))
    /\ openBatchError(owner) = "BatchOpen"

\* C18: a successful openBatch (the step that turns a batch open) marks the
\* batch with the current id open and sets its five fields to totalAmount =
\* 0, numApprovals = 0, thresholdLow = 2, thresholdHigh = 4, limit = 10000,
\* without changing the current batch id or any other batch.
C18_OpenBatchSetsDefaults ==
    [][\A b \in BatchIds :
          (~batches[b].isOpen /\ batches'[b].isOpen) =>
              /\ b = currentBatchId
              /\ currentBatchId' = currentBatchId
              /\ ToInt(Decrypt(batches'[b].totalAmountEncrypted)) = 0
              /\ ToInt(Decrypt(batches'[b].numApprovalsEncrypted)) = 0
              /\ ToInt(Decrypt(batches'[b].threshold2Encrypted)) = 2
              /\ ToInt(Decrypt(batches'[b].threshold4Encrypted)) = 4
              /\ ToInt(Decrypt(batches'[b].limitEncrypted)) = 10000
              /\ \A f \in {"totalAmountEncrypted", "numApprovalsEncrypted",
                           "threshold2Encrypted", "threshold4Encrypted",
                           "limitEncrypted"} : isInitialized(batches'[b][f])
              /\ \A other \in BatchIds \ {b} : batches'[other] = batches[other]
              /\ \E s \in Addr : openBatchError(s) = "ok"]_vars
\* the second batch was just opened and holds the defaults, while the first,
\* closed one holds a submission and policy parameters set by a provider
C18_Witness ==
    /\ currentBatchId > FirstBatchId
    /\ batches[currentBatchId].isOpen
    /\ ToInt(Decrypt(batches[currentBatchId].limitEncrypted)) = 10000
    /\ ToInt(Decrypt(batches[currentBatchId].totalAmountEncrypted)) = 0
    /\ ToInt(Decrypt(batches[FirstBatchId].limitEncrypted)) # 10000
    /\ ToInt(Decrypt(batches[FirstBatchId].totalAmountEncrypted)) > 0

\* C19 as stated: closeBatch fails with BatchClosed when the current batch is
\* not open, and otherwise closes it and advances the current batch id.  The
\* contract violates it: the owner and pause checks come first.
C19_CloseBatchOutcome ==
    \A s \in Addr :
        closeBatchError(s) =
            IF ~batches[currentBatchId].isOpen THEN "BatchClosed" ELSE "ok"
\* C19 amended: closeBatch called by the owner while the system is not paused
\* fails with BatchClosed when the current batch is not open, and is admitted
\* otherwise (another caller gets NotOwner, the owner while paused gets
\* Paused); the step of an admitted closeBatch marks the current batch closed,
\* changes nothing else in the batches and advances the current batch id by
\* exactly one, to an id of which no field was ever written, so that the next
\* openBatch targets an id that has never been open.
C19_CloseBatchAdvances ==
    [][/\ \A s \in Addr :
              closeBatchError(s) =
                  IF s # owner THEN "NotOwner"
                  ELSE IF paused THEN "Paused"
                  ELSE IF ~batches[currentBatchId].isOpen THEN "BatchClosed"
                  ELSE "ok"
       /\ (\/ currentBatchId' # currentBatchId
           \/ (batches[currentBatchId].isOpen /\ ~batches'[currentBatchId].isOpen))
              => /\ closeBatchError(owner) = "ok"
                 /\ currentBatchId' = currentBatchId + 1
                 /\ batches' = [batches EXCEPT ![currentBatchId].isOpen = FALSE]
                 /\ batches'[currentBatchId'] = EmptyBatch]_vars
\* the owner closed the first batch, which held a submission; the current id
\* is the next one, never opened, and a closeBatch now fails with BatchClosed
C19_Witness ==
    /\ ClosedBatch(FirstBatchId)
    /\ Additions(batches[FirstBatchId].totalAmountEncrypted) > 0
    /\ currentBatchId = FirstBatchId + 1
    /\ batches[currentBatchId] = EmptyBatch
    /\ closeBatchError(owner) = "BatchClosed"

\* C20: over any sequence of operations the current batch id never
\* decreases, and a batch id that has once been closed is never open again.
C20_BatchIdsForwardOnly ==
    [][/\ currentBatchId' >= currentBatchId
       /\ \A b \in BatchIds :
              /\ (ClosedBatch(b) => ~batches'[b].isOpen)
              /\ ((batches[b].isOpen /\ ~batches'[b].isOpen)
                     => b < currentBatchId')
              /\ (batches'[b].isOpen => b >= currentBatchId)]_vars
\* the first batch is closed, the second was opened and closed as well or is
\* the current one, at a later time than the deployment
C20_Witness ==
    /\ ClosedBatch(FirstBatchId)
    /\ currentBatchId = MaxBatchId
    /\ now > StartTime
    /\ \E s \in Addr : lastSubmissionTime[s] = now

\* C23: pause and unpause are strict transitions.  pause by the owner fails
\* (with Paused) when the system is already paused and is admitted otherwise;
\* unpause by the owner fails (the contract raises Paused here too) when the
\* system is not paused and is admitted otherwise; the step that turns the
\* switch is an admitted call, it inverts the switch and changes nothing else.
C23_PauseUnpauseStrict ==
    [][/\ pauseError(owner) = (IF paused THEN "Paused" ELSE "ok")
       /\ unpauseError(owner) = (IF paused THEN "ok" ELSE "Paused")
       /\ (paused' # paused =>
              /\ paused' = ~paused
              /\ <<owner, isProvider, lastSubmissionTime,
                   lastDecryptionRequestTime, cooldownSeconds,
                   decryptionContexts, batches, currentBatchId,
                   oracleRequests, now>>' =
                 <<owner, isProvider, lastSubmissionTime,
                   lastDecryptionRequestTime, cooldownSeconds,
                   decryptionContexts, batches, currentBatchId,
                   oracleRequests, now>>)]_vars
\* the system is paused under an owner other than the deployer, at a later
\* time than the deployment: a second pause is rejected, unpause is admitted
C23_Witness ==
    /\ paused
    /\ owner # Deployer
    /\ now > StartTime
    /\ pauseError(owner) = "Paused"
    /\ unpauseError(owner) = "ok"

\* the cleartexts added into a running total, oldest first, read from the
\* handle: a total is asEuint32(0) or FHE_add(previous total, input)
RECURSIVE SubmittedValues(_)
SubmittedValues(id) ==
    IF id = <<>> \/ id[1] # 2 THEN <<>>
    ELSE Append(SubmittedValues(SubSeq(id, 2, Len(id) - 3)),
                <<id[Len(id) - 1], id[Len(id)]>>)
RECURSIVE LimbSum(_, _)
LimbSum(values, k) ==
    IF values = <<>> THEN 0 ELSE values[1][k] + LimbSum(Tail(values), k)
\* the sum of 32-bit cleartexts modulo 2^32, from the sums of their limbs
SumMod32(values) ==
    <<(LimbSum(values, 1) + (LimbSum(values, 2) \div Limb)) % Limb,
      LimbSum(values, 2) % Limb>>
\* the plain sum of the values does not fit 32 bits
SumExceedsWidth(values) ==
    LimbSum(values, 1) + (LimbSum(values, 2) \div Limb) >= Limb

\* C24: after openBatch and any sequence of successful submitTransaction
\* calls, totalAmount and numApprovals of the batch decrypt to the sums of the
\* submitted amounts and approval counts modulo 2^32, and a provider outside
\* its cooldown is admitted whatever the accumulated sums are.
C24_TotalsAreSumsMod32 ==
    LET batch == batches[currentBatchId]
        amounts == SubmittedValues(batch.totalAmountEncrypted.id)
        approvals == SubmittedValues(batch.numApprovalsEncrypted.id)
    IN  batch.isOpen =>
        /\ Decrypt(batch.totalAmountEncrypted) = SumMod32(amounts)
        /\ Decrypt(batch.numApprovalsEncrypted) = SumMod32(approvals)
        /\ Len(amounts) = Additions(batch.totalAmountEncrypted)
        /\ Len(approvals) = Len(amounts)
        /\ \A s \in Addr, i \in DOMAIN WideSubmitInputs :
               (RateLimitedCallReady(s) /\ respectCooldown(s))
                   => submitTransactionError(s, i) = "ok"
\* three submissions were accumulated, the amounts and the approval counts
\* both wrapped around, and a further submission would be admitted
C24_Witness ==
    LET batch == batches[currentBatchId]
        amounts == SubmittedValues(batch.totalAmountEncrypted.id)
        approvals == SubmittedValues(batch.numApprovalsEncrypted.id)
    IN  /\ Len(amounts) >= 3
        /\ SumExceedsWidth(amounts)
        /\ SumExceedsWidth(approvals)
        /\ \E s \in Addr : submitTransactionError(s, 1) = "ok"

\* C25: a successful setPolicyParameters overwrites exactly thresholdLow,
\* thresholdHigh and limit of the open batch, with the submitted values, and
\* leaves totalAmount and numApprovals unchanged; a successful
\* submitTransaction changes exactly totalAmount and numApprovals and leaves
\* the three policy fields unchanged; neither changes isOpen, the current
\* batch id, any other batch or any decryption context.  A successful
\* provider call is the step that stamps a submission clock (C12, C13).
PolicyFields(batch) ==
    <<batch.threshold2Encrypted, batch.threshold4Encrypted, batch.limitEncrypted>>
TotalFields(batch) ==
    <<batch.totalAmountEncrypted, batch.numApprovalsEncrypted>>
C25_ProviderCallFrame ==
    [][SubmissionStamped # {} =>
          LET before == batches[currentBatchId]
              after == batches'[currentBatchId]
          IN  /\ currentBatchId' = currentBatchId
              /\ decryptionContexts' = decryptionContexts
              /\ \A b \in BatchIds \ {currentBatchId} : batches'[b] = batches[b]
              /\ before.isOpen /\ after.isOpen
              /\ after.id = before.id
              /\ \/ /\ TotalFields(after) = TotalFields(before)
                    /\ \E i \in DOMAIN PolicyInputs :
                           /\ ToInt(Decrypt(after.threshold2Encrypted)) = PolicyInputs[i][1]
                           /\ ToInt(Decrypt(after.threshold4Encrypted)) = PolicyInputs[i][2]
                           /\ ToInt(Decrypt(after.limitEncrypted)) = PolicyInputs[i][3]
                 \/ /\ PolicyFields(after) = PolicyFields(before)
                    /\ \E i \in DOMAIN SubmitInputs :
                           /\ Decrypt(after.totalAmountEncrypted) =
                                  U32Add(Decrypt(before.totalAmountEncrypted),
                                         U32(SubmitInputs[i][1]))
                           /\ Decrypt(after.numApprovalsEncrypted) =
                                  U32Add(Decrypt(before.numApprovalsEncrypted),
                                         U32(SubmitInputs[i][2]))
                    /\ after.totalAmountEncrypted # before.totalAmountEncrypted
                    /\ after.numApprovalsEncrypted # before.numApprovalsEncrypted]_vars
\* the open batch holds a submission of one provider and policy parameters
\* set by another, later call
C25_Witness ==
    LET batch == batches[currentBatchId] IN
    /\ batch.isOpen
    /\ ToInt(Decrypt(batch.totalAmountEncrypted)) > 0
    /\ ToInt(Decrypt(batch.threshold2Encrypted)) = 3
    /\ ToInt(Decrypt(batch.limitEncrypted)) = 0
    /\ \E s \in Addr : lastSubmissionTime[s] > 0

\* C26: no operation ever fails with InvalidThreshold or InvalidLimit:
\* setPolicyParameters on an open batch by a provider outside its cooldown,
\* the system not paused, is admitted for every triple of values, including
\* thresholdLow > thresholdHigh and limit = 0 (the triple of PolicyInputs).
RaisedErrors ==
    UNION {
        {transferOwnershipError(s, a), addProviderError(s, a),
         removeProviderError(s, a) } : s \in Addr, a \in Addr}
    \cup {pauseError(s) : s \in Addr} \cup {unpauseError(s) : s \in Addr}
    \cup {setCooldownSecondsError(s, c) : s \in Addr, c \in CooldownInputs}
    \cup {openBatchError(s) : s \in Addr} \cup {closeBatchError(s) : s \in Addr}
    \cup {setPolicyParametersError(s, i) : s \in Addr, i \in DOMAIN PolicyInputs}
    \cup {submitTransactionError(s, i) : s \in Addr, i \in DOMAIN SubmitInputs}
    \cup {requestApprovalStatusError(s, b) : s \in Addr, b \in BatchIds}
    \cup {myCallbackError(r, c, p) : r \in RequestIds, c \in BOOLEAN, p \in Proofs}
C26_NoValidationOfPolicy ==
    /\ RaisedErrors \cap {"InvalidThreshold", "InvalidLimit"} = {}
    /\ \A s \in Addr, i \in DOMAIN PolicyInputs :
           (/\ isProvider[s]
            /\ ~paused
            /\ batches[currentBatchId].isOpen
            /\ now - LastRateLimitedCall(s) >= cooldownSeconds)
               => setPolicyParametersError(s, i) = "ok"
\* an open batch whose thresholdLow is above its thresholdHigh and whose limit
\* is 0, after a setPolicyParameters, and a provider is admitted to set them
\* once more
C26_Witness ==
    LET batch == batches[currentBatchId] IN
    /\ batch.isOpen
    /\ ToInt(Decrypt(batch.threshold2Encrypted)) >
           ToInt(Decrypt(batch.threshold4Encrypted))
    /\ isInitialized(batch.limitEncrypted)
    /\ ToInt(Decrypt(batch.limitEncrypted)) = 0
    /\ \E s \in Addr, i \in DOMAIN PolicyInputs :
           /\ PolicyInputs[i][1] > PolicyInputs[i][2]
           /\ PolicyInputs[i][3] = 0
           /\ setPolicyParametersError(s, i) = "ok"

\* C27: in every reachable state the only batch that can be open is the one
\* whose id is the current batch id: batch 0 and every id above the current
\* one have never been opened (no field of them was written), and every id
\* from the first one up to the current one excluded was opened and is closed.
C27_OnlyCurrentBatchOpen ==
    /\ currentBatchId >= FirstBatchId
    /\ \A b \in BatchIds :
           /\ (batches[b].isOpen => b = currentBatchId)
           /\ ((b = 0 \/ b > currentBatchId) => batches[b] = EmptyBatch)
           /\ ((FirstBatchId <= b /\ b < currentBatchId) => ClosedBatch(b))
\* every id below the last one was opened and closed, the last one is open,
\* and a provider wrote into it
C27_Witness ==
    /\ currentBatchId = MaxBatchId
    /\ \A b \in FirstBatchId..(MaxBatchId - 1) : ClosedBatch(b)
    /\ batches[currentBatchId].isOpen
    /\ batches[0] = EmptyBatch
    /\ Additions(batches[currentBatchId].totalAmountEncrypted) > 0

\* C28: a callback for a request id under which no decryption request was
\* registered (the oracle has handed out the ids below Len(oracleRequests))
\* fails whatever cleartext and proof are supplied; a processed context and a
\* DecryptionCompleted event exist only for a registered id.
Registered(r) == r < Len(oracleRequests)
C28_UnregisteredCallbackFails ==
    /\ \A r \in RequestIds :
           ~Registered(r) =>
               /\ decryptionContexts[r] = EmptyContext
               /\ \A c \in BOOLEAN, p \in Proofs : myCallbackError(r, c, p) # "ok"
    /\ \A r \in RequestIds : decryptionContexts[r].processed => Registered(r)
    /\ (lastEvent.name = "DecryptionCompleted" => Registered(lastEvent.requestId))
\* request id 0 was never registered while a batch with a submission is open;
\* a callback for it with a proof of the key holders is rejected for the
\* state hash of the empty context
C28_Witness ==
    /\ ~Registered(0)
    /\ batches[currentBatchId].isOpen
    /\ Additions(batches[currentBatchId].totalAmountEncrypted) > 0
    /\ callbackHash(0) # decryptionContexts[0].stateHash
    /\ \A c \in BOOLEAN : myCallbackError(0, c, "kms") = "StateMismatch"

\* C30: submitTransaction and setPolicyParameters report their failure in the
\* order NotProvider, Paused, CooldownActive, BatchClosed: a non-provider gets
\* NotProvider even while paused, a provider calling while paused gets Paused
\* even if its cooldown is active, and a provider inside its cooldown gets
\* CooldownActive even if the current batch is closed.
ProviderCallOutcome(s) ==
    IF ~isProvider[s] THEN "NotProvider"
    ELSE IF paused THEN "Paused"
    ELSE IF \/ now < lastSubmissionTime[s] + cooldownSeconds
            \/ now < lastDecryptionRequestTime[s] + cooldownSeconds
         THEN "CooldownActive"
    ELSE IF ~batches[currentBatchId].isOpen THEN "BatchClosed"
    ELSE "ok"
OwnerOnlyErrors(s) ==
    {transferOwnershipError(s, a) : a \in Addr}
    \cup {addProviderError(s, a) : a \in Addr}
    \cup {removeProviderError(s, a) : a \in Addr}
    \cup {setCooldownSecondsError(s, c) : c \in CooldownInputs}
    \cup {pauseError(s), unpauseError(s), openBatchError(s), closeBatchError(s)}
ProviderErrors(s) ==
    {submitTransactionError(s, i) : i \in DOMAIN SubmitInputs}
    \cup {setPolicyParametersError(s, i) : i \in DOMAIN PolicyInputs}
C31_TransferOwnershipFrame ==
    [][\A previous, new \in Addr :
          (previous = owner /\ new = owner' /\ new # previous) =>
              /\ transferOwnershipError(previous, new) = "ok"
              /\ <<isProvider, lastSubmissionTime, lastDecryptionRequestTime,
                   cooldownSeconds, paused, decryptionContexts, batches,
                   currentBatchId, oracleRequests>>' =
                 <<isProvider, lastSubmissionTime, lastDecryptionRequestTime,
                   cooldownSeconds, paused, decryptionContexts, batches,
                   currentBatchId, oracleRequests>>
              /\ OwnerOnlyErrors(previous)' = {"NotOwner"}
              /\ "NotOwner" \notin OwnerOnlyErrors(new)'
              /\ \A s \in {previous, new} :
                     /\ ProviderErrors(s)' = ProviderErrors(s)
                     /\ (isProvider[s] <=> "NotProvider" \notin ProviderErrors(s)')]_vars
\* the deployer handed the ownership to an address that is not a provider:
\* the deployer is still admitted to submit into the open batch and is
\* rejected by openBatch and pause, the new owner is rejected as a provider
C31_Witness ==
    /\ owner # Deployer
    /\ isProvider[Deployer]
    /\ ~isProvider[owner]
    /\ batches[currentBatchId].isOpen
    /\ submitTransactionError(Deployer, 1) = "ok"
    /\ pauseError(Deployer) = "NotOwner"
    /\ submitTransactionError(owner, 1) = "NotProvider"
    /\ closeBatchError(owner) = "ok"
====
